---- MODULE Spec2Model ----
(***************************************************************************)
(* Q-routing simulator (Boyan & Littman): the arrival-update variant of     *)
(* classes.py driven by simulation.tick, and the metrics collector of       *)
(* metrics.py.                                                              *)
(*                                                                          *)
(* Q-values are Python floats.  Every value the simulator stores is an      *)
(* integer combined with halvings (learning_rate = 0.5), so it is a dyadic  *)
(* rational that a double holds exactly; the model keeps it as the record   *)
(* [n |-> numerator, e |-> exponent], meaning n / 2^e, in lowest terms.     *)
(***************************************************************************)
EXTENDS Integers, Sequences, FiniteSets, TLC

\* ------------------------------------------------------------------ bounds
\* Packets constructed in one run.
MaxPackets == 2
\* Calls of tick() in one run.
MaxTime == 4
\* Further calls of tick() the driver may need to deliver what is in flight.
DeliveryTicks == 5

MaxRegistry == 3

MaxSamples == 1

ScriptMaxPackets == 4

ScriptMaxTime == 6

\* run_gradual_load_scenario: the largest gap and sample_interval passed, and
\* the number of tick() calls its loop is followed for
MaxGap == 2

MaxSampleInterval == 1

ScenarioMaxTime == 6

\* ------------------------------------------------------------ node universe
NodeIds == {0, 1, 2}
\* previous_node = None
None == -1

\* The model's value for a _current_label of None
NoLabel == "<None>"

\* run_gradual_load_scenario is not running: no arguments, no locals
NoDriver ==
    [phase |-> "off", total |-> 0, gap |-> 0, label |-> NoLabel,
     sample_interval |-> 0, gap_counter |-> 0, sample_counter |-> 0,
     should_sample |-> FALSE, injections |-> 0, since_injection |-> None]

VARIABLES
    neighbors,          \* Node.neighbors: node id -> list of neighbour ids
    nodes,              \* the list handed to tick(), as node ids in list order
    queue,              \* Node.queue: node id -> deque of packet ids
    pending_requests,   \* Node.pending_requests: node id -> list of <<packet, next>>
    q_values,           \* Node.q_table.q_values: node id -> [<<dest, nb>> -> value]
    packets,            \* the constructed Packet objects, by id
    id_counter,         \* Packet._id_counter
    time,               \* simulation.time
    delivered_packets,  \* metrics.delivered_packets (packet ids, in order)
    pending,            \* the driver's list of packets created and not yet injected
    pc,                 \* where the run is: idle, decide, commit, end, crashed
    idx,                \* position of tick()'s current for-loop in nodes
    fault,              \* the exception that ended the run, or "none"
    links,              \* history: packet id -> link traversals executed so far
    len_at_tick,        \* history: packet id -> len(route) when tick() was entered
    waited,             \* history: packet id -> decide phases it sat in its
                        \* present queue without being the packet popped
    series,             \* metrics.series: label -> list of <<tick, average>>
    current_label,      \* metrics._current_label, NoLabel for None
    driver              \* run_gradual_load_scenario: its arguments and locals

vars == <<neighbors, nodes, queue, pending_requests, q_values, packets,
          id_counter, time, delivered_packets, pending, pc, idx, fault, links,
          len_at_tick, waited, series, current_label, driver>>

\* ------------------------------------------------------- float arithmetic
RECURSIVE Pow2(_)
Pow2(k) == IF k = 0 THEN 1 ELSE 2 * Pow2(k - 1)

RECURSIVE DNorm(_, _)
DNorm(n, e) ==
    IF e > 0 /\ n % 2 = 0 THEN DNorm(n \div 2, e - 1) ELSE [n |-> n, e |-> e]

DInt(k) == [n |-> k, e |-> 0]

DMaxE(a, b) == IF a.e >= b.e THEN a.e ELSE b.e

\* a's numerator over the denominator 2^e (e >= a.e)
DNum(a, e) == a.n * Pow2(e - a.e)

DAdd(a, b) == DNorm(DNum(a, DMaxE(a, b)) + DNum(b, DMaxE(a, b)), DMaxE(a, b))

DSub(a, b) == DNorm(DNum(a, DMaxE(a, b)) - DNum(b, DMaxE(a, b)), DMaxE(a, b))

DMul(a, b) == DNorm(a.n * b.n, a.e + b.e)

DLess(a, b) == DNum(a, DMaxE(a, b)) < DNum(b, DMaxE(a, b))

DAbs(a) == IF a.n < 0 THEN [n |-> 0 - a.n, e |-> a.e] ELSE a

\* min() of a non-empty collection of floats
DMin(S) == CHOOSE v \in S : \A w \in S : ~DLess(w, v)

\* epsilon = 1e-6 as 1 / EpsilonInv
EpsilonInv == 1000000

\* a < 1e-6 for a >= 0:  a.n / 2^a.e < 1 / EpsilonInv
DBelowEpsilon(a) == a.n <= (Pow2(a.e) - 1) \div EpsilonInv

\* ---------------------------------------------------------------- QTable
\* QTable.get
Get(tbl, destination, neighbor) ==
    IF <<destination, neighbor>> \in DOMAIN tbl
    THEN tbl[<<destination, neighbor>>]
    ELSE DInt(0)

\* QTable.set
Set(tbl, destination, neighbor, value) ==
    [k \in (DOMAIN tbl) \cup {<<destination, neighbor>>} |->
        IF k = <<destination, neighbor>> THEN value ELSE tbl[k]]

\* QTable.get_min_for_destination
GetMinForDestination(tbl, destination) ==
    LET relevant == {tbl[k] : k \in {j \in DOMAIN tbl : j[1] = destination}}
    IN  IF relevant # {} THEN DMin(relevant) ELSE DInt(0)

\* ------------------------------------------------------------------ Node
Range(s) == {s[i] : i \in DOMAIN s}

\* Node.learning_rate = 0.5
learning_rate == [n |-> 1, e |-> 1]

\* An initialize_q_table that does not skip the node's own id
InitializeQTableOwnIdToo(self, nbs) ==
    [k \in {<<d, nb>> : d \in NodeIds, nb \in Range(nbs)} |-> DInt(1)]

\* Node.initialize_q_table, for the node self with neighbour list nbs
InitializeQTable(self, nbs) ==
    [k \in {<<d, nb>> : d \in NodeIds \ {self}, nb \in Range(nbs)} |-> DInt(1)]

\* A Hop stamped with the tick after the one it was sent in
HopStampedLate(from_id, to_id, sent, received) ==
    [from_id |-> from_id, to_id |-> to_id, sent |-> sent + 1, received |-> received + 1]

\* Hop(from_id, to_id, sent, received)
Hop(from_id, to_id, sent, received) ==
    [from_id |-> from_id, to_id |-> to_id, sent |-> sent, received |-> received]

\* A Packet whose id is not taken from the counter
NewPacketSameId(id, origin, destination, route) ==
    [id |-> 1, origin |-> origin, destination |-> destination, route |-> route,
     reached_destination |-> FALSE, time_in_queue |-> 0, queue_entry_time |-> 0,
     departure_time |-> 0, arrival_time |-> 0]

\* Packet(origin, destination, route=route), with the id __post_init__ gives it
NewPacket(id, origin, destination, route) ==
    [id |-> id, origin |-> origin, destination |-> destination, route |-> route,
     reached_destination |-> FALSE, time_in_queue |-> 0, queue_entry_time |-> 0,
     departure_time |-> 0, arrival_time |-> 0]

\* Metrics.on_delivered, on the registry
OnDelivered(registry, p) == Append(registry, p)

\* The state Node.receive and Node.execute_pending_requests read and write
World ==
    [queue |-> queue, q_values |-> q_values, packets |-> packets,
     delivered_packets |-> delivered_packets, links |-> links]

\* A receive that moves the estimate away from the new experience
UpdatedEstimateStepsAway(old_estimate, eta, q, transit, t) ==
    DSub(old_estimate,
         DMul(eta, DSub(DAdd(DInt(q + transit), t), old_estimate)))

\* A receive that forgets to subtract the old estimate
UpdatedEstimateNoOld(old_estimate, eta, q, transit, t) ==
    DAdd(old_estimate, DMul(eta, DAdd(DInt(q + transit), t)))

\* Node.receive: the value stored for an observed transit,
\* old_estimate + eta * ((q + s + t) - old_estimate)
UpdatedEstimate(old_estimate, eta, q, transit, t) ==
    LET new_experience == DAdd(DInt(q + transit), t)
        delta == DMul(eta, DSub(new_experience, old_estimate))
    IN  DAdd(old_estimate, delta)

\* Node.receive, the learning step: previous_node's entry for
\* (packet.destination, self) is updated from the observed q, s and t
LearnFromArrival(s, self, packet, previous_node) ==
    LET pk == s.packets[packet]
        q == pk.departure_time - pk.queue_entry_time
        transit == pk.arrival_time - pk.departure_time
        t == GetMinForDestination(s.q_values[self], pk.destination)
        old_estimate == Get(s.q_values[previous_node], pk.destination, self)
        new_value == UpdatedEstimate(old_estimate, learning_rate, q, transit, t)
    IN  [s EXCEPT !.q_values[previous_node] =
                      Set(@, pk.destination, self, new_value)]

\* A receive that puts the packet at the front of the queue
ProcessPacketJumpsQueue(s, self, hop, packet, current_time) ==
    IF self = s.packets[packet].destination
    THEN [s EXCEPT !.packets[packet].reached_destination = TRUE,
                   !.packets[packet].route = Append(@, hop),
                   !.delivered_packets = OnDelivered(@, packet)]
    ELSE [s EXCEPT !.packets[packet].queue_entry_time = current_time,
                   !.queue[self] = <<packet>> \o @]

\* A receive that stamps the queue entry with the tick of the send
ProcessPacketStampsSendTick(s, self, hop, packet, current_time) ==
    IF self = s.packets[packet].destination
    THEN [s EXCEPT !.packets[packet].reached_destination = TRUE,
                   !.packets[packet].route = Append(@, hop),
                   !.delivered_packets = OnDelivered(@, packet)]
    ELSE [s EXCEPT !.packets[packet].queue_entry_time = current_time - 1,
                   !.queue[self] = Append(@, packet)]

\* A receive whose delivery branch falls through to the queue
ProcessPacketAlwaysQueues(s, self, hop, packet, current_time) ==
    IF self = s.packets[packet].destination
    THEN [s EXCEPT !.packets[packet].reached_destination = TRUE,
                   !.packets[packet].route = Append(@, hop),
                   !.delivered_packets = OnDelivered(@, packet),
                   !.queue[self] = Append(@, packet)]
    ELSE [s EXCEPT !.packets[packet].queue_entry_time = current_time,
                   !.queue[self] = Append(@, packet)]

\* A receive that stamps the packet but does not keep it
ProcessPacketDropsPacket(s, self, hop, packet, current_time) ==
    IF self = s.packets[packet].destination
    THEN [s EXCEPT !.packets[packet].reached_destination = TRUE,
                   !.packets[packet].route = Append(@, hop),
                   !.delivered_packets = OnDelivered(@, packet)]
    ELSE [s EXCEPT !.packets[packet].queue_entry_time = current_time]

\* Node.receive, "procesar el paquete": deliver it here or queue it
ProcessPacket(s, self, hop, packet, current_time) ==
    IF self = s.packets[packet].destination
    THEN [s EXCEPT !.packets[packet].reached_destination = TRUE,
                   !.packets[packet].route = Append(@, hop),
                   !.delivered_packets = OnDelivered(@, packet)]
    ELSE [s EXCEPT !.packets[packet].queue_entry_time = current_time,
                   !.queue[self] = Append(@, packet)]

\* A receive that does not stamp the arrival
ReceiveWithoutArrivalStamp(s, self, hop, packet, current_time, previous_node) ==
    LET learned == IF previous_node # None /\ s.packets[packet].route # <<>>
                   THEN LearnFromArrival(s, self, packet, previous_node)
                   ELSE s
    IN  ProcessPacket(learned, self, hop, packet, current_time)

\* Node.receive(hop, packet, current_time, previous_node), on the node self
Receive(s, self, hop, packet, current_time, previous_node) ==
    LET arrived == [s EXCEPT !.packets[packet].arrival_time = current_time]
        learned == IF previous_node # None /\ arrived.packets[packet].route # <<>>
                   THEN LearnFromArrival(arrived, self, packet, previous_node)
                   ELSE arrived
    IN  ProcessPacket(learned, self, hop, packet, current_time)

\* Node.execute_pending_requests(current_time), on the node self: the loop
\* over its planned sends reqs
RECURSIVE ExecutePendingRequests(_, _, _, _)
ExecutePendingRequests(s, self, reqs, current_time) ==
    IF reqs = <<>>
    THEN s
    ELSE LET packet == Head(reqs)[1]
             next_node == Head(reqs)[2]
             hop == Hop(self, next_node, current_time, current_time + 1)
             sent == [s EXCEPT !.packets[packet].departure_time = current_time,
                               !.packets[packet].route = Append(@, hop),
                               !.links[packet] = @ + 1]
         IN  ExecutePendingRequests(
                 Receive(sent, next_node, hop, packet, current_time + 1, self),
                 self, Tail(reqs), current_time)

\* ------------------------------------------------------------------ tick
\* The packets in node's planned-sends list
PlannedBy(node) ==
    {pending_requests[node][i][1] : i \in DOMAIN pending_requests[node]}

\* The position of node in the list handed to tick()
PositionOf(node) == CHOOSE i \in DOMAIN nodes : nodes[i] = node

\* A tick() that takes the neighbours with the largest Q-value
BestCandidatesMax(node, destination) ==
    LET q_of(nb) == Get(q_values[node], destination, nb)
    IN  {nb \in Range(neighbors[node]) :
            \A other \in Range(neighbors[node]) : ~DLess(q_of(nb), q_of(other))}

\* A tick() that takes the first neighbour, whatever its Q-value
BestCandidatesFirst(node, destination) == {neighbors[node][1]}

\* The neighbours tick() may choose for a packet to destination at node:
\* those whose Q-value is within epsilon of the minimum
BestCandidates(node, destination) ==
    LET q_of(nb) == Get(q_values[node], destination, nb)
        min_q == DMin({q_of(nb) : nb \in Range(neighbors[node])})
    IN  {nb \in Range(neighbors[node]) : DBelowEpsilon(DAbs(DSub(q_of(nb), min_q)))}

\* A decide pass that plans the send at the node visited just before
DecideAtPreviousNode(w, node, pick) ==
    LET previous == nodes[IF PositionOf(node) = 1 THEN Len(nodes)
                                                 ELSE PositionOf(node) - 1]
    IN  IF w.fault # "none" \/ w.queue[node] = <<>>
        THEN w
        ELSE [w EXCEPT !.queue[node] = Tail(@),
                       !.pending_requests[previous] =
                           Append(@, <<Head(w.queue[node]), pick>>)]

\* tick(), phase 1, the loop body at node as a function of the queues, the
\* planned sends and the fault so far; pick is the outcome of the tie-break
DecideAt(w, node, pick) ==
    IF w.fault # "none" \/ w.queue[node] = <<>>
    THEN w
    ELSE LET packet == Head(w.queue[node])
             popped == [w EXCEPT !.queue[node] = Tail(@)]
         IN  IF packets[packet].reached_destination
             THEN popped
             ELSE IF neighbors[node] = <<>>
                  THEN [popped EXCEPT !.fault = "ValueError"]
                  ELSE [popped EXCEPT !.pending_requests[node] =
                                          Append(@, <<packet, pick>>)]

\* tick(), phase 1, over the nodes in the given order, tie_break[n] being the
\* outcome of the tie-break at node n
RECURSIVE DecidePhase(_, _, _)
DecidePhase(w, order, tie_break) ==
    IF order = <<>>
    THEN w
    ELSE DecidePhase(DecideAt(w, Head(order), tie_break[Head(order)]),
                     Tail(order), tie_break)

\* What the decide phase reads and writes
DecideWorld ==
    [queue |-> queue, pending_requests |-> pending_requests, fault |-> fault]

\* The outcomes random.choice may have at node n in this tick
TieBreakOutcomes(n) ==
    IF queue[n] # <<>> /\ neighbors[n] # <<>>
    THEN BestCandidates(n, packets[Head(queue[n])].destination)
    ELSE {n}

\* The resolutions of this tick's tie-breaks: one outcome per node
TieBreaks == {tb \in [NodeIds -> NodeIds] : \A n \in NodeIds : tb[n] \in TieBreakOutcomes(n)}

\* Every order in which a list may hold the nodes
AllOrders == {o \in [1 .. Cardinality(NodeIds) -> NodeIds] :
                 \A i, j \in DOMAIN o : i # j => o[i] # o[j]}

\* tick(), phase 2, over the nodes in the given order:
\* for node in nodes: node.execute_pending_requests(time)
RECURSIVE CommitPhase(_, _)
CommitPhase(w, order) ==
    IF order = <<>>
    THEN w
    ELSE CommitPhase(
             ExecutePendingRequests(w, Head(order), pending_requests[Head(order)],
                                    time),
             Tail(order))

\* The bootstrap term t of the arrival that the planned send req causes when
\* it is executed in the state w: the receiver's minimum for the destination
BootstrapTerm(w, req) ==
    GetMinForDestination(w.q_values[req[2]], w.packets[req[1]].destination)

\* A tick() whose commit loop leaves out the last node of the list
NextPosCommitStopsEarly(phase, i) ==
    IF phase = "decide"
    THEN IF i < Len(nodes)
         THEN [pc |-> "decide", idx |-> i + 1]
         ELSE [pc |-> "commit", idx |-> 1]
    ELSE IF i < Len(nodes) - 1
         THEN [pc |-> "commit", idx |-> i + 1]
         ELSE [pc |-> "end", idx |-> 0]

\* A tick() with one loop, each node planning and then sending at once
NextPosInterleaved(phase, i) ==
    IF phase = "decide"
    THEN [pc |-> "commit", idx |-> i]
    ELSE IF i < Len(nodes)
         THEN [pc |-> "decide", idx |-> i + 1]
         ELSE [pc |-> "end", idx |-> 0]

\* Where tick() goes after the loop body at position i of a phase: the decide
\* loop runs over all nodes, then the commit loop, then time += 1
NextPos(phase, i) ==
    IF i < Len(nodes)
    THEN [pc |-> phase, idx |-> i + 1]
    ELSE IF phase = "decide"
         THEN [pc |-> "commit", idx |-> 1]
         ELSE [pc |-> "end", idx |-> 0]

\* ------------------------------------------------------------- topologies
\* Three nodes in a line, in a triangle, and a pair with a third node that
\* has no neighbour at all
Line == (0 :> <<1>>) @@ (1 :> <<0, 2>>) @@ (2 :> <<1>>)

Triangle == (0 :> <<1, 2>>) @@ (1 :> <<0, 2>>) @@ (2 :> <<0, 1>>)

Isolated == (0 :> <<1>>) @@ (1 :> <<0>>) @@ (2 :> <<>>)

Topologies == {Line, Triangle, Isolated}

\* The orders in which tick() may be handed the nodes: up to the symmetries
\* of the three topologies, every order is one of these
NodeOrders == {<<0, 1, 2>>, <<1, 2, 0>>, <<2, 0, 1>>}

\* ------------------------------------------------------------------ Init
Init ==
    /\ neighbors \in Topologies
    /\ nodes \in NodeOrders
    /\ queue = [n \in NodeIds |-> <<>>]
    /\ pending_requests = [n \in NodeIds |-> <<>>]
    /\ q_values = [n \in NodeIds |-> InitializeQTable(n, neighbors[n])]
    /\ packets = <<>>
    /\ id_counter = 0
    /\ time = 0
    /\ delivered_packets = <<>>
    /\ pending = <<>>
    /\ pc = "idle"
    /\ idx = 0
    /\ fault = "none"
    /\ links = <<>>
    /\ len_at_tick = <<>>
    /\ waited = <<>>
    /\ series = <<>>
    /\ current_label = NoLabel
    /\ driver = NoDriver

\* --------------------------------------------------------------- actions
\* generate_routing_request: a new Packet from origin to destination, kept
\* in the driver's pending list
GenerateRoutingRequest(origin, destination) ==
    /\ pc = "idle"
    /\ id_counter < MaxPackets
    /\ origin # destination
    /\ id_counter' = id_counter + 1
    /\ packets' = Append(packets, NewPacket(id_counter + 1, origin, destination, <<>>))
    /\ pending' = Append(pending, id_counter + 1)
    /\ links' = Append(links, 0)
    /\ len_at_tick' = Append(len_at_tick, 0)
    /\ waited' = Append(waited, 0)
    /\ UNCHANGED <<driver, series, current_label, neighbors, nodes, queue, pending_requests, q_values, time,
                   delivered_packets, pc, idx, fault>>

\* The driver's injection: pending.pop(0), stamped with the current tick and
\* appended to its origin's queue
Inject ==
    /\ pc = "idle"
    /\ pending # <<>>
    /\ LET pkt == Head(pending)
       IN  /\ packets' = [packets EXCEPT ![pkt].queue_entry_time = time]
           /\ queue' = [queue EXCEPT ![packets[pkt].origin] = Append(@, pkt)]
    /\ pending' = Tail(pending)
    /\ waited' = [waited EXCEPT ![Head(pending)] = 0]
    /\ UNCHANGED <<driver, series, current_label, neighbors, nodes, pending_requests, q_values, id_counter,
                   time, delivered_packets, pc, idx, fault, links, len_at_tick>>

\* The packets the driver has injected and that are not delivered yet
InFlight == {p \in DOMAIN packets : p \notin Range(pending)
                                    /\ ~packets[p].reached_destination}

\* The driver calls tick(nodes): its loop runs while a packet is still to be
\* injected or to be delivered (here: for at most horizon calls)
TickBeginUpTo(horizon) ==
    /\ pc = "idle"
    /\ time < horizon
    /\ pending # <<>> \/ InFlight # {}
    /\ pc' = "decide"
    /\ idx' = 1
    /\ len_at_tick' = [p \in DOMAIN packets |-> Len(packets[p].route)]
    /\ UNCHANGED waited
    /\ UNCHANGED <<driver, series, current_label, neighbors, nodes, queue, pending_requests, q_values,
                   packets, id_counter, time, delivered_packets, pending,
                   fault, links>>

TickBegin == TickBeginUpTo(MaxTime)

\* tick(), phase 1, one pass of the loop body: the node at position idx
DecideStep ==
    /\ pc = "decide"
    /\ LET node == nodes[idx]
           packet == Head(queue[node])
           next == NextPos("decide", idx)
       IN  IF queue[node] = <<>>
           THEN /\ pc' = next.pc
                /\ idx' = next.idx
                /\ UNCHANGED <<queue, pending_requests, fault>>
           ELSE /\ queue' = [queue EXCEPT ![node] = Tail(@)]
                /\ IF packets[packet].reached_destination
                   THEN /\ pc' = next.pc
                        /\ idx' = next.idx
                        /\ UNCHANGED <<pending_requests, fault>>
                   ELSE IF neighbors[node] = <<>>
                        THEN \* min() of an empty list
                             /\ fault' = "ValueError"
                             /\ pc' = "crashed"
                             /\ UNCHANGED <<pending_requests, idx>>
                        ELSE /\ \E best_next_node \in
                                    BestCandidates(node, packets[packet].destination) :
                                  pending_requests' =
                                      [pending_requests EXCEPT ![node] =
                                          Append(@, <<packet, best_next_node>>)]
                             /\ pc' = next.pc
                             /\ idx' = next.idx
                             /\ UNCHANGED fault
    /\ UNCHANGED <<driver, series, current_label, neighbors, nodes, q_values, packets, id_counter, time,
                   delivered_packets, pending, links, len_at_tick>>
    /\ waited' = [p \in DOMAIN waited |->
                     IF queue[nodes[idx]] # <<>> /\ p \in Range(Tail(queue[nodes[idx]]))
                     THEN waited[p] + 1
                     ELSE waited[p]]

\* tick(), phase 2, one pass of the loop body:
\* nodes[idx].execute_pending_requests(time)
CommitStep ==
    /\ pc = "commit"
    /\ LET node == nodes[idx]
           s == ExecutePendingRequests(World, node, pending_requests[node], time)
           next == NextPos("commit", idx)
       IN  /\ queue' = s.queue
           /\ q_values' = s.q_values
           /\ packets' = s.packets
           /\ delivered_packets' = s.delivered_packets
           /\ links' = s.links
           /\ pending_requests' = [pending_requests EXCEPT ![node] = <<>>]
           /\ pc' = next.pc
           /\ idx' = next.idx
    /\ waited' = [p \in DOMAIN waited |->
                     IF \E i \in DOMAIN pending_requests[nodes[idx]] :
                            pending_requests[nodes[idx]][i][1] = p
                     THEN 0
                     ELSE waited[p]]
    /\ UNCHANGED <<driver, series, current_label, neighbors, nodes, id_counter, time,
                   pending, fault, len_at_tick>>

\* tick(nodes): time += 1, and the return to the driver (should_sample is
\* False by default: nothing is sampled)
TickEnd ==
    /\ pc = "end"
    /\ time' = time + 1
    /\ pc' = "idle"
    /\ UNCHANGED <<driver, series, current_label, neighbors, nodes, queue, pending_requests, q_values,
                   packets, id_counter, delivered_packets, pending, idx,
                   fault, links, len_at_tick, waited>>

Next ==
    \/ \E origin \in NodeIds, destination \in NodeIds :
           GenerateRoutingRequest(origin, destination)
    \/ Inject
    \/ TickBegin
    \/ DecideStep
    \/ CommitStep
    \/ TickEnd

Spec == Init /\ [][Next]_vars

\* The topology is connected: every node reaches every node
RECURSIVE ReachFrom(_)
ReachFrom(S) ==
    LET T == S \cup {m \in NodeIds : \E n \in S : m \in Range(neighbors[n])}
    IN  IF T = S THEN S ELSE ReachFrom(T)

ConnectedTopology == \A n \in NodeIds : ReachFrom({n}) = NodeIds

\* ------------------------------------------------------------- liveness
\* The same run with the driver's loop going on until what is in flight is
\* delivered.  tick() is one thread of control: once called it runs its two
\* loops to their end, and the driver calls it again while its loop
\* condition holds.  The fairness of the loop bodies is stated on the loop
\* position <<pc, idx>>, which every pass of either loop moves on.
TickBeginLive == TickBeginUpTo(MaxTime + DeliveryTicks)

TickRuns ==
    /\ pc \in {"decide", "commit"}
    /\ \/ pc' = NextPos(pc, idx).pc /\ idx' = NextPos(pc, idx).idx
       \/ pc' = "crashed" /\ idx' = idx

LiveNext ==
    \/ \E origin \in NodeIds, destination \in NodeIds :
           GenerateRoutingRequest(origin, destination)
    \/ Inject
    \/ TickBeginLive
    \/ DecideStep
    \/ CommitStep
    \/ TickEnd

\* The liveness claim is about connected topologies
LiveInit == Init /\ ConnectedTopology

LiveSpec ==
    /\ LiveInit
    /\ [][LiveNext]_vars
    /\ WF_vars(TickBeginLive)
    /\ WF_<<pc, idx>>(TickRuns)
    /\ WF_vars(TickEnd)

\* ------------------------------------------------- a run at a learned state
\* Node 0's Q-table in the triangle after this run of the simulator: three
\* packets queued at node 0 at tick 0 (two for node 1, then one for node 2,
\* which is sent straight to node 2 after waiting two ticks), then twenty
\* packets for node 2, one every third tick, each routed 0 -> 1 -> 2:
\*   {(1,1): 1.5, (1,2): 1.0, (2,1): 2 - 2^-20, (2,2): 2.0}
\* The tables of nodes 1 and 2 still hold their initial values.
LearnedTableOfNode0 ==
    (<<1, 1>> :> [n |-> 3, e |-> 1]) @@ (<<1, 2>> :> DInt(1))
    @@ (<<2, 1>> :> [n |-> Pow2(21) - 1, e |-> 20]) @@ (<<2, 2>> :> DInt(2))

LearnedInit ==
    /\ neighbors = Triangle
    /\ nodes \in NodeOrders
    /\ queue = [n \in NodeIds |-> <<>>]
    /\ pending_requests = [n \in NodeIds |-> <<>>]
    /\ q_values = [n \in NodeIds |->
                      IF n = 0 THEN LearnedTableOfNode0
                               ELSE InitializeQTable(n, neighbors[n])]
    /\ packets = <<>>
    /\ id_counter = 0
    /\ time = 0
    /\ delivered_packets = <<>>
    /\ pending = <<>>
    /\ pc = "idle"
    /\ idx = 0
    /\ fault = "none"
    /\ links = <<>>
    /\ len_at_tick = <<>>
    /\ waited = <<>>
    /\ series = <<>>
    /\ current_label = NoLabel
    /\ driver = NoDriver

LearnedSpec == LearnedInit /\ [][Next]_vars

\* ------------------------------------------------------------------ metrics
\* A delivery time that looks at the first hop only
DeliveryTimeOfFirstHop(p) ==
    IF p.route = <<>> THEN 0 ELSE p.route[1].received - p.route[1].sent

\* Metrics.delivery_time
DeliveryTime(p) ==
    IF p.route = <<>> THEN 0 ELSE p.route[Len(p.route)].received - p.route[1].sent

\* sum(self.delivery_time(p) for p in delivered_with_route)
RECURSIVE Total(_, _)
Total(registry, pkts) ==
    IF registry = <<>> THEN 0
    ELSE DeliveryTime(pkts[Head(registry)]) + Total(Tail(registry), pkts)

RECURSIVE GCD(_, _)
GCD(a, b) == IF b = 0 THEN a ELSE GCD(b, a % b)

\* total / count: the quotient in lowest terms (the float returned is the
\* double nearest to it; 0.0 is 0/1)
Quotient(total, count) ==
    LET g == GCD(total, count)
    IN  [num |-> total \div g, den |-> count \div g]

\* Metrics.average_delivery_time_so_far
AverageDeliveryTimeSoFar(registry, pkts) ==
    LET delivered_with_route == SelectSeq(registry, LAMBDA p : pkts[p].route # <<>>)
    IN  IF delivered_with_route = <<>>
        THEN Quotient(0, 1)
        ELSE Quotient(Total(delivered_with_route, pkts), Len(delivered_with_route))

\* Routes of packets that a caller of Metrics builds itself
HandRoutes ==
    {<<Hop(0, 1, 0, 3)>>, <<Hop(0, 1, 2, 6)>>, <<Hop(0, 1, 0, 1), Hop(1, 2, 1, 3)>>}

\* p = Packet(origin, destination, route=route, reached_destination=True);
\* metrics.on_delivered(p)
DeliverByHand(route) ==
    /\ pc = "idle"
    /\ id_counter < MaxPackets
    /\ Len(delivered_packets) < MaxRegistry
    /\ id_counter' = id_counter + 1
    /\ packets' = Append(packets,
                         [NewPacket(id_counter + 1, route[1].from_id,
                                    route[Len(route)].to_id, route)
                              EXCEPT !.reached_destination = TRUE])
    /\ delivered_packets' = OnDelivered(delivered_packets, id_counter + 1)
    /\ links' = Append(links, 0)
    /\ len_at_tick' = Append(len_at_tick, Len(route))
    /\ waited' = Append(waited, 0)
    /\ UNCHANGED <<driver, series, current_label, neighbors, nodes, queue, pending_requests, q_values, time,
                   pending, pc, idx, fault>>

\* metrics.on_delivered(p) for a packet that has been delivered
OnDeliveredCall(p) ==
    /\ pc = "idle"
    /\ packets[p].reached_destination
    /\ Len(delivered_packets) < MaxRegistry
    /\ delivered_packets' = OnDelivered(delivered_packets, p)
    /\ UNCHANGED <<driver, series, current_label, neighbors, nodes, queue, pending_requests, q_values, packets,
                   id_counter, time, pending, pc, idx, fault, links, len_at_tick,
                   waited>>

\* The scenario labels the driver uses
Labels == {"low_load", "high_load"}

\* The Metrics object: its registry, its series and its active label
MetricsObject ==
    [delivered_packets |-> delivered_packets, series |-> series,
     current_label |-> current_label]

\* A start_series that starts over with the registry as well
StartSeriesClearsRegistry(m, label) ==
    [m EXCEPT !.current_label = label,
              !.series = [l \in DOMAIN m.series \cup {label} |->
                             IF l = label THEN <<>> ELSE m.series[l]],
              !.delivered_packets = <<>>]

\* Metrics.start_series(label), on the Metrics object m
StartSeriesOn(m, label) ==
    [m EXCEPT !.current_label = label,
              !.series = [l \in DOMAIN m.series \cup {label} |->
                             IF l = label THEN <<>> ELSE m.series[l]]]

\* run_gradual_load_scenario: metrics.start_series(label)
StartSeries(label) ==
    /\ pc = "idle"
    /\ LET m == StartSeriesOn(MetricsObject, label)
       IN  /\ delivered_packets' = m.delivered_packets
           /\ series' = m.series
           /\ current_label' = m.current_label
    /\ UNCHANGED <<driver, neighbors, nodes, queue, pending_requests, q_values, packets,
                   id_counter, time, pending, pc, idx, fault, links, len_at_tick,
                   waited>>

\* The number of samples in all series
RECURSIVE SamplesIn(_)
SamplesIn(labels) ==
    IF labels = {} THEN 0
    ELSE LET l == CHOOSE x \in labels : TRUE
         IN  Len(series[l]) + SamplesIn(labels \ {l})

\* tick(nodes, should_sample=True, label=label) with the label of the running
\* scenario: time += 1, then the sample <<time, average>> is appended to
\* series[label]
TickEndSampled ==
    /\ pc = "end"
    /\ current_label \in DOMAIN series
    /\ SamplesIn(DOMAIN series) < MaxSamples
    /\ time' = time + 1
    /\ series' = [series EXCEPT ![current_label] =
                     Append(@, <<time + 1,
                                 AverageDeliveryTimeSoFar(delivered_packets, packets)>>)]
    /\ pc' = "idle"
    /\ UNCHANGED <<driver, current_label, neighbors, nodes, queue, pending_requests,
                   q_values, packets, id_counter, delivered_packets, pending, idx,
                   fault, links, len_at_tick, waited>>

MetricsInit == Init /\ neighbors = Line /\ nodes = <<0, 1, 2>>

MetricsNext ==
    \/ Next
    \/ \E route \in HandRoutes : DeliverByHand(route)
    \/ \E p \in DOMAIN packets : OnDeliveredCall(p)
    \/ \E label \in Labels : StartSeries(label)
    \/ TickEndSampled

MetricsSpec == MetricsInit /\ [][MetricsNext]_vars

\* ------------------------------------------- script.py: the triplet-key variant
\* QTable.get of script.py: keys are <<from_id, destination, to_id>>
ScriptGet(tbl, from_id, destination, to_id) ==
    IF <<from_id, destination, to_id>> \in DOMAIN tbl
    THEN tbl[<<from_id, destination, to_id>>]
    ELSE DInt(0)

\* A set that files the entry under the neighbour's id as from-node
ScriptSetUnderNeighbour(tbl, from_id, destination, to_id, value) ==
    [k \in DOMAIN tbl \cup {<<to_id, destination, from_id>>} |->
        IF k = <<to_id, destination, from_id>> THEN value ELSE tbl[k]]

\* QTable.set of script.py
ScriptSet(tbl, from_id, destination, to_id, value) ==
    [k \in DOMAIN tbl \cup {<<from_id, destination, to_id>>} |->
        IF k = <<from_id, destination, to_id>> THEN value ELSE tbl[k]]

\* Packet of script.py
ScriptPacket(id, origin, destination) ==
    [id |-> id, origin |-> origin, destination |-> destination, route |-> <<>>,
     reached_destination |-> FALSE, time_in_queue |-> 0]

\* min(node.neighbors, key=...): the first neighbour in list order with the
\* least Q-value
ScriptBestNextNode(node, destination) ==
    LET q_of(i) == ScriptGet(q_values[node], node, destination, neighbors[node][i])
        first == CHOOSE i \in DOMAIN neighbors[node] :
                     /\ \A j \in DOMAIN neighbors[node] : ~DLess(q_of(j), q_of(i))
                     /\ \A j \in DOMAIN neighbors[node] : j < i => DLess(q_of(i), q_of(j))
    IN  neighbors[node][first]

\* tick() of script.py: new_estimation
ScriptNewEstimation(time_in_queue, next_node_estimation, old_estimation) ==
    DMul([n |-> 1, e |-> 1],
         DSub(DAdd(DInt(time_in_queue + 1), next_node_estimation), old_estimation))

\* Node.receive of script.py, on the node self
ScriptReceive(s, self, hop, packet) ==
    IF self = s.packets[packet].destination
    THEN [s EXCEPT !.packets[packet].reached_destination = TRUE,
                   !.packets[packet].route = Append(@, hop)]
    ELSE [s EXCEPT !.queue[self] = Append(@, packet)]

\* Node.execute_pending_requests of script.py, on the node self
RECURSIVE ScriptExecutePendingRequests(_, _, _)
ScriptExecutePendingRequests(s, self, reqs) ==
    IF reqs = <<>>
    THEN s
    ELSE LET packet == Head(reqs)[1]
             next_node == Head(reqs)[2]
             hop == Hop(self, next_node, time, time + 1)
             sent == [s EXCEPT !.packets[packet].time_in_queue = 0,
                               !.packets[packet].route = Append(@, hop),
                               !.links[packet] = @ + 1]
         IN  ScriptExecutePendingRequests(
                 ScriptReceive(sent, next_node, hop, packet), self, Tail(reqs))

\* create_6x6_grid and main of script.py, on three nodes: no Q-table entry is
\* set before the first tick
ScriptInit ==
    /\ neighbors \in {Line, Triangle}
    /\ nodes = <<0, 1, 2>>
    /\ queue = [n \in NodeIds |-> <<>>]
    /\ pending_requests = [n \in NodeIds |-> <<>>]
    /\ q_values = [n \in NodeIds |-> <<>>]
    /\ packets = <<>>
    /\ id_counter = 0
    /\ time = 0
    /\ delivered_packets = <<>>
    /\ pending = <<>>
    /\ pc = "idle"
    /\ idx = 0
    /\ fault = "none"
    /\ links = <<>>
    /\ len_at_tick = <<>>
    /\ waited = <<>>
    /\ series = <<>>
    /\ current_label = NoLabel
    /\ driver = NoDriver

\* main of script.py: packet = generate_routing_request(nodes), from node 0
\* to the last node, and nodes[packet.origin].queue.append(packet)
ScriptInject ==
    /\ pc = "idle"
    /\ id_counter < ScriptMaxPackets
    /\ id_counter' = id_counter + 1
    /\ packets' = Append(packets, ScriptPacket(id_counter + 1, 0, Len(nodes) - 1))
    /\ queue' = [queue EXCEPT ![0] = Append(@, id_counter + 1)]
    /\ links' = Append(links, 0)
    /\ len_at_tick' = Append(len_at_tick, 0)
    /\ waited' = Append(waited, 0)
    /\ UNCHANGED <<driver, series, current_label, neighbors, nodes, pending_requests,
                   q_values, time, delivered_packets, pending, pc, idx, fault>>

\* main of script.py calls tick(nodes) while a packet is undelivered
ScriptTickBegin ==
    /\ pc = "idle"
    /\ time < ScriptMaxTime
    /\ \E p \in DOMAIN packets : ~packets[p].reached_destination
    /\ pc' = "decide"
    /\ idx' = 1
    /\ len_at_tick' = [p \in DOMAIN packets |-> Len(packets[p].route)]
    /\ UNCHANGED <<driver, series, current_label, neighbors, nodes, queue,
                   pending_requests, q_values, packets, id_counter, time,
                   delivered_packets, pending, fault, links, waited>>

\* tick() of script.py, phase 1, one pass of the loop body: the node at
\* position idx chooses, learns, counts the wait of the packets left in its
\* queue, and plans the send
ScriptDecideStep ==
    /\ pc = "decide"
    /\ LET node == nodes[idx]
           packet == Head(queue[node])
           destination == packets[packet].destination
           next == NextPos("decide", idx)
           best_next_node == ScriptBestNextNode(node, destination)
           next_node_estimation ==
               ScriptGet(q_values[best_next_node], node, destination, best_next_node)
           old_estimation == ScriptGet(q_values[node], node, destination, best_next_node)
           new_estimation == ScriptNewEstimation(packets[packet].time_in_queue,
                                                 next_node_estimation, old_estimation)
       IN  IF queue[node] = <<>>
           THEN /\ pc' = next.pc
                /\ idx' = next.idx
                /\ UNCHANGED <<queue, pending_requests, q_values, packets, fault, waited>>
           ELSE /\ queue' = [queue EXCEPT ![node] = Tail(@)]
                /\ IF packets[packet].reached_destination
                   THEN /\ pc' = next.pc
                        /\ idx' = next.idx
                        /\ UNCHANGED <<pending_requests, q_values, packets, fault, waited>>
                   ELSE IF neighbors[node] = <<>>
                        THEN \* min() of an empty list
                             /\ fault' = "ValueError"
                             /\ pc' = "crashed"
                             /\ UNCHANGED <<pending_requests, q_values, packets, idx, waited>>
                        ELSE /\ q_values' =
                                    [q_values EXCEPT ![node] =
                                        ScriptSet(@, node, destination,
                                                  best_next_node, new_estimation)]
                             /\ packets' =
                                    [p \in DOMAIN packets |->
                                        IF p \in Range(Tail(queue[node]))
                                        THEN [packets[p] EXCEPT !.time_in_queue = @ + 1]
                                        ELSE packets[p]]
                             /\ waited' =
                                    [p \in DOMAIN waited |->
                                        IF p \in Range(Tail(queue[node]))
                                        THEN waited[p] + 1
                                        ELSE waited[p]]
                             /\ pending_requests' =
                                    [pending_requests EXCEPT ![node] =
                                        Append(@, <<packet, best_next_node>>)]
                             /\ pc' = next.pc
                             /\ idx' = next.idx
                             /\ UNCHANGED fault
    /\ UNCHANGED <<driver, series, current_label, neighbors, nodes, id_counter, time,
                   delivered_packets, pending, links, len_at_tick>>

\* tick() of script.py, phase 2, one pass of the loop body:
\* nodes[idx].execute_pending_requests()
ScriptCommitStep ==
    /\ pc = "commit"
    /\ LET node == nodes[idx]
           s == ScriptExecutePendingRequests(
                    [queue |-> queue, packets |-> packets, links |-> links],
                    node, pending_requests[node])
           next == NextPos("commit", idx)
       IN  /\ queue' = s.queue
           /\ packets' = s.packets
           /\ links' = s.links
           /\ pending_requests' = [pending_requests EXCEPT ![node] = <<>>]
           /\ waited' = [p \in DOMAIN waited |->
                            IF p \in PlannedBy(node) THEN 0 ELSE waited[p]]
           /\ pc' = next.pc
           /\ idx' = next.idx
    /\ UNCHANGED <<driver, series, current_label, neighbors, nodes, q_values, id_counter,
                   time, delivered_packets, pending, fault, len_at_tick>>

\* tick() of script.py: time += 1, and the return to main
ScriptTickEnd ==
    /\ pc = "end"
    /\ time' = time + 1
    /\ pc' = "idle"
    /\ UNCHANGED <<driver, series, current_label, neighbors, nodes, queue,
                   pending_requests, q_values, packets, id_counter,
                   delivered_packets, pending, idx, fault, links, len_at_tick,
                   waited>>

ScriptNext ==
    \/ ScriptInject
    \/ ScriptTickBegin
    \/ ScriptDecideStep
    \/ ScriptCommitStep
    \/ ScriptTickEnd

ScriptSpec == ScriptInit /\ [][ScriptNext]_vars

\* ------------------------------------- simulation.py: run_gradual_load_scenario
\* The (origin, destination) pairs generate_routing_request can draw
Requests == {r \in NodeIds \X NodeIds : r[1] # r[2]}

\* run_gradual_load_scenario(nodes, total, gap, label, sample_interval), up to
\* its while loop: metrics.start_series(label), then
\* pending = [generate_routing_request(nodes) for _ in range(total)],
\* gap_counter = 0 and sample_counter = 0
ScenarioBegin(requests, gap, label, sample_interval) ==
    /\ pc = "idle"
    /\ driver.phase = "off"
    /\ LET total == Len(requests)
           m == StartSeriesOn(MetricsObject, label)
       IN  /\ delivered_packets' = m.delivered_packets
           /\ series' = m.series
           /\ current_label' = m.current_label
           /\ packets' = packets \o
                  [i \in 1..total |->
                      NewPacket(id_counter + i, requests[i][1], requests[i][2], <<>>)]
           /\ id_counter' = id_counter + total
           /\ pending' = pending \o [i \in 1..total |-> id_counter + i]
           /\ links' = links \o [i \in 1..total |-> 0]
           /\ len_at_tick' = len_at_tick \o [i \in 1..total |-> 0]
           /\ waited' = waited \o [i \in 1..total |-> 0]
           /\ driver' = [NoDriver EXCEPT !.phase = "loop", !.total = total,
                                         !.gap = gap, !.label = label,
                                         !.sample_interval = sample_interval]
    /\ UNCHANGED <<neighbors, nodes, queue, pending_requests, q_values, time,
                   pc, idx, fault>>

\* The test of the while loop:
\* pending or any(not p.reached_destination for p in active)
ScenarioLoopTest == pending # <<>> \/ InFlight # {}

\* The first branch of the loop body is taken: a packet is injected
ScenarioInjects == driver.gap_counter = 0 /\ pending # <<>>

\* gap_counter after the if/else of the loop body
GapCounterAfter(d, injects) ==
    IF injects THEN d.gap
    ELSE IF d.gap_counter = 0 THEN 0 ELSE d.gap_counter - 1

\* One pass of the while loop up to the entry of tick(): the injection or the
\* countdown of gap_counter, then should_sample and sample_counter, then the
\* call tick(nodes, should_sample=should_sample, label=label)
ScenarioLoopStep ==
    /\ pc = "idle"
    /\ driver.phase = "loop"
    /\ time < ScenarioMaxTime
    /\ ScenarioLoopTest
    /\ IF ScenarioInjects
       THEN LET pkt == Head(pending)
            IN  /\ packets' = [packets EXCEPT ![pkt].queue_entry_time = time]
                /\ queue' = [queue EXCEPT ![packets[pkt].origin] = Append(@, pkt)]
                /\ pending' = Tail(pending)
                /\ waited' = [waited EXCEPT ![pkt] = 0]
       ELSE UNCHANGED <<packets, queue, pending, waited>>
    /\ driver' = [driver EXCEPT
                     !.gap_counter = GapCounterAfter(driver, ScenarioInjects),
                     !.should_sample = (driver.sample_counter = 0),
                     !.sample_counter = IF driver.sample_counter = 0
                                        THEN driver.sample_interval
                                        ELSE driver.sample_counter - 1,
                     !.injections = IF ScenarioInjects THEN @ + 1 ELSE @,
                     !.since_injection = IF ScenarioInjects THEN 0 ELSE @]
    /\ pc' = "decide"
    /\ idx' = 1
    /\ len_at_tick' = [p \in DOMAIN packets |-> Len(packets[p].route)]
    /\ UNCHANGED <<series, current_label, neighbors, nodes, pending_requests,
                   q_values, id_counter, time, delivered_packets, fault, links>>

\* The end of the tick() the loop called: time += 1, then the sample
\* <<time, average>> when should_sample (the label is never empty)
ScenarioTickEnd ==
    /\ pc = "end"
    /\ driver.phase = "loop"
    /\ time' = time + 1
    /\ series' = IF driver.should_sample
                 THEN [series EXCEPT ![driver.label] =
                          Append(@, <<time + 1,
                                      AverageDeliveryTimeSoFar(delivered_packets,
                                                               packets)>>)]
                 ELSE series
    /\ driver' = [driver EXCEPT !.since_injection =
                                    IF @ = None THEN None ELSE @ + 1]
    /\ pc' = "idle"
    /\ UNCHANGED <<current_label, neighbors, nodes, queue, pending_requests,
                   q_values, packets, id_counter, delivered_packets, pending, idx,
                   fault, links, len_at_tick, waited>>

\* The while loop is left: the final point is sampled unless the last tick
\* sampled it, and run_gradual_load_scenario returns
ScenarioFinish ==
    /\ pc = "idle"
    /\ driver.phase = "loop"
    /\ ~ScenarioLoopTest
    /\ LET points == series[driver.label]
       IN  series' = IF points = <<>> \/ points[Len(points)][1] # time
                     THEN [series EXCEPT ![driver.label] =
                              Append(@, <<time,
                                          AverageDeliveryTimeSoFar(delivered_packets,
                                                                   packets)>>)]
                     ELSE series
    /\ driver' = [driver EXCEPT !.phase = "done"]
    /\ UNCHANGED <<current_label, neighbors, nodes, queue, pending_requests,
                   q_values, packets, id_counter, time, delivered_packets, pending,
                   pc, idx, fault, links, len_at_tick, waited>>

\* The lists of requests the comprehension can build
RequestLists == UNION {[1..total -> Requests] : total \in 0..MaxPackets}

ScenarioInit == Init /\ neighbors \in {Line, Triangle} /\ nodes = <<0, 1, 2>>

ScenarioNext ==
    \/ \E requests \in RequestLists, gap \in 0..MaxGap, label \in Labels,
          sample_interval \in 0..MaxSampleInterval :
           ScenarioBegin(requests, gap, label, sample_interval)
    \/ ScenarioLoopStep
    \/ DecideStep
    \/ CommitStep
    \/ ScenarioTickEnd
    \/ ScenarioFinish

ScenarioSpec == ScenarioInit /\ [][ScenarioNext]_vars

\* ================================================================ claims
\* Occurrences of packet p in a queue, and in a list of planned sends
InQueue(p, que) == Cardinality({i \in DOMAIN que : que[i] = p})

Planned(p, reqs) == Cardinality({i \in DOMAIN reqs : reqs[i][1] = p})

\* p's send was committed during the tick that is still running (or has
\* just ended: time moves on only with the tick's last statement)
CommittedThisTick(p) ==
    packets[p].route # <<>> /\ packets[p].departure_time = time

\* C1: a packet whose send was committed during tick T is neither popped
\* from a queue nor added to a planned-sends list before time becomes T+1,
\* in whatever order tick() visits the nodes.
C1_NoSameTickDoubleHop ==
    [][\A p \in DOMAIN packets :
          CommittedThisTick(p) =>
              \A n \in NodeIds :
                  /\ InQueue(p, queue'[n]) >= InQueue(p, queue[n])
                  /\ Planned(p, pending_requests'[n]) <= Planned(p, pending_requests[n])]_vars

\* C1's case: during the commit phase a packet sent in this tick heads the
\* queue of a node that tick() visits after the sender
C1_Witness ==
    /\ pc = "commit"
    /\ \E p \in DOMAIN packets, i \in DOMAIN nodes :
          /\ CommittedThisTick(p)
          /\ queue[nodes[i]] # <<>>
          /\ Head(queue[nodes[i]]) = p
          /\ \E j \in DOMAIN nodes :
                j < i /\ nodes[j] = packets[p].route[Len(packets[p].route)].from_id

\* C3: within one tick len(packet.route) never decreases and grows by at
\* most 1, the tick of the delivery included.
C3_RouteGrowsByAtMostOnePerTick ==
    \A p \in DOMAIN packets :
        /\ Len(packets[p].route) >= len_at_tick[p]
        /\ Len(packets[p].route) <= len_at_tick[p] + 1

\* C4: the route holds exactly one Hop per link traversed, and no Hop twice.
C4_OneHopPerTraversal ==
    \A p \in DOMAIN packets :
        /\ Len(packets[p].route) = links[p]
        /\ \A i, j \in DOMAIN packets[p].route :
              i # j => packets[p].route[i] # packets[p].route[j]

\* C7: a run that tick() ends at a node with a packet to route and no
\* neighbour ends with a ConfigurationError.
C7_ZeroNeighbourIsConfigurationError ==
    pc = "crashed" => fault = "ConfigurationError"

Delivered(p) == p \in DOMAIN packets /\ packets[p].reached_destination

\* C2: on a connected topology with initialised Q-tables, a packet that is in
\* flight (injected, not delivered) is eventually delivered by repeated
\* ticks, whatever the tie-breaks and the other packets in flight.  (The
\* driver's loop is followed for DeliveryTicks calls beyond MaxTime, so the
\* packets in flight by MaxTime are the ones the run can be held to.)
C2_DeliveryEventuallyHappens ==
    \A p \in 1 .. MaxPackets :
        (ConnectedTopology /\ p \in InFlight /\ time <= MaxTime) ~> Delivered(p)

\* C2's case: a packet was delivered after a detour (more sends than its
\* shortest path has links) while another packet was in flight
C2_Witness ==
    /\ ConnectedTopology
    /\ \E p \in DOMAIN packets :
          /\ packets[p].reached_destination
          /\ links[p] >= 3
          /\ InFlight # {}

\* C5: when a packet sent by x is received by its neighbour y, x's entry for
\* (destination, y) becomes old + eta * ((q + s + t) - old), with old x's
\* entry before, q = departure_time - queue-entry tick at x, s = arrival
\* tick - departure tick and t = y's minimum over its entries for the
\* destination; no other entry of any table changes.  For q=2, s=1, t=0,
\* eta=0.5, old=1.0 the stored value is 2.0.  (With eta = 0.5 the rule
\* reads 2 * new - old = q + s + t.)
C5_UpdateRuleAtArrival ==
    [][/\ UpdatedEstimate(DInt(1), [n |-> 1, e |-> 1], 2, 1, DInt(0)) = DInt(2)
       /\ (pc = "commit" /\ pending_requests[nodes[idx]] # <<>>) =>
             LET x == nodes[idx]
                 p == pending_requests[x][1][1]
                 y == pending_requests[x][1][2]
                 d == packets[p].destination
                 old == Get(q_values[x], d, y)
                 q == packets'[p].departure_time - packets[p].queue_entry_time
                 transit == (time + 1) - packets'[p].departure_time
                 t == GetMinForDestination(q_values[y], d)
                 target == DAdd(DInt(q + transit), t)
             IN  /\ Len(pending_requests[x]) = 1
                 /\ y \in Range(neighbors[x])
                 /\ DSub(DAdd(q_values'[x][<<d, y>>], q_values'[x][<<d, y>>]), old)
                        = target
                 /\ \A n \in NodeIds :
                        \A k \in DOMAIN q_values'[n] :
                            (n # x \/ k # <<d, y>>) =>
                                /\ k \in DOMAIN q_values[n]
                                /\ q_values'[n][k] = q_values[n][k]]_vars

\* C5's case: an entry has been updated from 1.0 after an observed transit
\* with q = 1 to the destination (s = 1, t = 0): it holds 1.5
C5_Witness ==
    \E n \in NodeIds, p \in DOMAIN packets :
        /\ packets[p].reached_destination
        /\ links[p] = 1
        /\ packets[p].departure_time - packets[p].queue_entry_time = 1
        /\ packets[p].origin = n
        /\ <<packets[p].destination, packets[p].destination>> \in DOMAIN q_values[n]
        /\ q_values[n][<<packets[p].destination, packets[p].destination>>]
               = [n |-> 3, e |-> 1]

\* C10: reached_destination turns true only in the receive at the packet's
\* destination, never turns false again, and no step that leaves the flag
\* true appends the packet to a queue or to a planned-sends list.
C10_ReachedDestinationIsTerminal ==
    [][\A p \in DOMAIN packets :
          /\ packets[p].reached_destination => packets'[p].reached_destination
          /\ (~packets[p].reached_destination /\ packets'[p].reached_destination) =>
                /\ pc = "commit"
                /\ packets'[p].route[Len(packets'[p].route)].to_id
                       = packets[p].destination
                /\ packets'[p].route[Len(packets'[p].route)].from_id = nodes[idx]
                /\ packets'[p].arrival_time = time + 1
          /\ packets'[p].reached_destination =>
                \A n \in NodeIds :
                    /\ InQueue(p, queue'[n]) <= InQueue(p, queue[n])
                    /\ Planned(p, pending_requests'[n]) <= Planned(p, pending_requests[n])]_vars

\* C10's case: a packet was delivered in an earlier tick and the run went on
\* with another packet still travelling
C10_Witness ==
    \E p \in DOMAIN packets :
        /\ packets[p].reached_destination
        /\ packets[p].arrival_time < time
        /\ pc = "commit"
        /\ \E n \in NodeIds : pending_requests[n] # <<>>

\* The Q-value node n holds for destination d via neighbour nb
QOf(n, d, nb) == Get(q_values[n], d, nb)

\* nb's Q-value is within 1e-6 of the least Q-value among n's neighbours
WithinTolerance(n, d, nb) ==
    \E least \in Range(neighbors[n]) :
        /\ \A m \in Range(neighbors[n]) : ~DLess(QOf(n, d, m), QOf(n, d, least))
        /\ DBelowEpsilon(DAbs(DSub(QOf(n, d, nb), QOf(n, d, least))))

\* nb attains the least Q-value among n's neighbours
AttainsMinimum(n, d, nb) ==
    \A m \in Range(neighbors[n]) : ~DLess(QOf(n, d, m), QOf(n, d, nb))

\* C6 as claimed: every planned next hop is a neighbour within 1e-6 of the
\* minimum, and when exactly one neighbour attains the minimum the planned
\* next hop is that neighbour.
C6_GreedyUniqueMinimumChosen ==
    \A n \in NodeIds :
        \A i \in DOMAIN pending_requests[n] :
            LET d == packets[pending_requests[n][i][1]].destination
                chosen == pending_requests[n][i][2]
            IN  /\ chosen \in Range(neighbors[n])
                /\ WithinTolerance(n, d, chosen)
                /\ Cardinality({m \in Range(neighbors[n]) : AttainsMinimum(n, d, m)}) = 1
                       => AttainsMinimum(n, d, chosen)

\* C6, amended: every planned next hop is a neighbour within 1e-6 of the
\* minimum (so none outside the tolerance is chosen), and when exactly one
\* neighbour lies within the tolerance the planned next hop is that one.
C6_GreedyWithinTolerance ==
    \A n \in NodeIds :
        \A i \in DOMAIN pending_requests[n] :
            LET d == packets[pending_requests[n][i][1]].destination
                chosen == pending_requests[n][i][2]
                tolerated == {m \in Range(neighbors[n]) : WithinTolerance(n, d, m)}
            IN  /\ chosen \in Range(neighbors[n])
                /\ chosen \in tolerated
                /\ Cardinality(tolerated) = 1 => tolerated = {chosen}

\* C6's case: a next hop was planned at a node where one neighbour attains
\* the minimum, another lies within 1e-6 of it, and a choice was made
C6_Witness ==
    \E n \in NodeIds :
        \E i \in DOMAIN pending_requests[n] :
            LET d == packets[pending_requests[n][i][1]].destination
            IN  \E a, b \in Range(neighbors[n]) :
                    /\ DLess(QOf(n, d, a), QOf(n, d, b))
                    /\ WithinTolerance(n, d, b)

\* The sum of route[-1].received - route[0].sent over the registry entries
\* at the positions in S
RECURSIVE SumOfTravelTimes(_)
SumOfTravelTimes(S) ==
    IF S = {} THEN 0
    ELSE LET i == CHOOSE j \in S : TRUE
             route == packets[delivered_packets[i]].route
         IN  route[Len(route)].received - route[1].sent
                 + SumOfTravelTimes(S \ {i})

\* C8: average_delivery_time_so_far() is the arithmetic mean, over the packets
\* registered as delivered, of route[-1].received - route[0].sent, and 0.0
\* when none is registered; for two delivered packets with hops
\* (sent=0, received=3) and (sent=2, received=6) it is 3.5.
C8_AverageDeliveryTime ==
    LET avg == AverageDeliveryTimeSoFar(delivered_packets, packets)
    IN  /\ delivered_packets = <<>> => avg = [num |-> 0, den |-> 1]
        /\ delivered_packets # <<>> =>
              /\ avg.den > 0
              /\ avg.num * Len(delivered_packets)
                     = avg.den * SumOfTravelTimes(DOMAIN delivered_packets)
        /\ AverageDeliveryTimeSoFar(
               <<1, 2>>,
               <<NewPacket(1, 0, 1, <<Hop(0, 1, 0, 3)>>),
                 NewPacket(2, 0, 1, <<Hop(0, 1, 2, 6)>>)>>) = [num |-> 7, den |-> 2]

\* C8's case: the registry holds exactly a packet with the hop
\* (sent=0, received=3) and one with the hop (sent=2, received=6), and the
\* average is 7/2
C8_Witness ==
    /\ Len(delivered_packets) = 2
    /\ \E a, b \in DOMAIN delivered_packets :
          /\ packets[delivered_packets[a]].route = <<Hop(0, 1, 0, 3)>>
          /\ packets[delivered_packets[b]].route = <<Hop(0, 1, 2, 6)>>
    /\ AverageDeliveryTimeSoFar(delivered_packets, packets) = [num |-> 7, den |-> 2]

\* C9: whatever on_delivered calls and ticks have happened, no packet id
\* occurs more than once in delivered_packets.
C9_NoPacketRegisteredTwice ==
    \A i, j \in DOMAIN delivered_packets :
        i # j => delivered_packets[i] # delivered_packets[j]

\* The last Hop of packet p's route
LastHop(p) == packets[p].route[Len(packets[p].route)]

\* Packet p was put into its present queue by a send committed at tick - 1
ForwardedAt(p, tick) ==
    /\ packets[p].route # <<>>
    /\ packets[p].queue_entry_time = tick
    /\ LastHop(p).received = tick

\* que holds its packets by entry tick, earliest first, and those sent to it
\* in the same tick in the order of their senders in nodes
InArrivalOrder(que) ==
    \A i, j \in DOMAIN que :
        i < j =>
            /\ packets[que[i]].queue_entry_time <= packets[que[j]].queue_entry_time
            /\ (\E tick \in 0 .. time + 1 :
                    ForwardedAt(que[i], tick) /\ ForwardedAt(que[j], tick))
                   => PositionOf(LastHop(que[i]).from_id)
                          < PositionOf(LastHop(que[j]).from_id)

\* C11: a queue only loses its head and only grows at its tail, so the packet
\* popped in a decide phase is the one that entered earliest; a queue is
\* ordered by entry tick, and the packets sent to it in one tick stand in the
\* order of their senders in the nodes list.
C11_FifoOrdering ==
    [][\A n \in NodeIds :
          /\ InArrivalOrder(queue[n])
          /\ Len(queue'[n]) < Len(queue[n]) =>
                /\ pc = "decide" /\ nodes[idx] = n
                /\ queue'[n] = Tail(queue[n])
                /\ \A i \in DOMAIN queue[n] :
                       packets[Head(queue[n])].queue_entry_time
                           <= packets[queue[n][i]].queue_entry_time
          /\ Len(queue'[n]) >= Len(queue[n]) =>
                SubSeq(queue'[n], 1, Len(queue[n])) = queue[n]]_vars

\* C11's case: two packets sent to one node in the same tick by different
\* nodes wait in its queue, and the decide phase has popped the first
C11_Witness ==
    \E n \in NodeIds, p \in DOMAIN packets, r \in DOMAIN packets :
        /\ p # r
        /\ packets[p].route # <<>> /\ packets[r].route # <<>>
        /\ LastHop(p).to_id = n /\ LastHop(r).to_id = n
        /\ LastHop(p).sent = LastHop(r).sent
        /\ PositionOf(LastHop(p).from_id) < PositionOf(LastHop(r).from_id)
        /\ pc = "decide"
        /\ queue[n] = <<r>>
        /\ \E i \in DOMAIN pending_requests[n] : pending_requests[n][i][1] = p

AppendedHops(p) ==
    {packets'[p].route[i] : i \in Len(packets[p].route) + 1 .. Len(packets'[p].route)}

\* C13: the tick counter changes only in the last statement of tick(), by
\* exactly 1, once per call and after every node's execute_pending_requests
\* has run; it does not change in the decide or the commit phase, and every
\* Hop committed in a call carries the counter's value before the increment
\* as its sent value.
C13_TickCounter ==
    [][/\ time' # time =>
              /\ pc = "end" /\ pc' = "idle"
              /\ time' = time + 1
              /\ \A n \in NodeIds : pending_requests[n] = <<>>
       /\ (pc \in {"decide", "commit"}) => time' = time
       /\ (pc # "idle" /\ pc' = "idle") => time' = time + 1
       /\ (pc = "idle" /\ pc' # "idle") => (pc' = "decide" /\ time' = time)
       /\ \A p \in DOMAIN packets :
              /\ AppendedHops(p) # {} => pc = "commit"
              /\ \A hop \in AppendedHops(p) : hop.sent = time
              /\ (pc = "end" /\ packets[p].route # <<>> /\ links[p] > 0
                      /\ packets[p].departure_time = time) => LastHop(p).sent = time]_vars

\* C13's case: tick() is about to increment the counter after two nodes
\* committed a send in this call
C13_Witness ==
    /\ pc = "end"
    /\ \E p, r \in DOMAIN packets :
          /\ packets[p].route # <<>> /\ packets[r].route # <<>>
          /\ LastHop(p).from_id # LastHop(r).from_id
          /\ LastHop(p).sent = time /\ LastHop(r).sent = time
          /\ time > 0

\* C14: every constructed Packet has an id greater than the id of every
\* Packet constructed before it (packets holds them in construction order),
\* so no two packets share an id; the ids handed out so far are at most
\* Packet._id_counter.
C14_MonotonicPacketIds ==
    /\ \A i, j \in DOMAIN packets : i < j => packets[i].id < packets[j].id
    /\ \A i \in DOMAIN packets : packets[i].id <= id_counter

\* C14's case: a packet was constructed, ticks have run and delivered it, and
\* a second packet has been constructed
C14_Witness ==
    /\ Len(packets) >= 2
    /\ time > 0
    /\ packets[1].reached_destination
    /\ packets[2].id # packets[1].id

C16_QueueWaitIsTicksWaited ==
    [][/\ \A n \in NodeIds : \A p \in PlannedBy(n) :
              time - packets[p].queue_entry_time = waited[p]
       /\ pc = "commit" =>
              \A p \in PlannedBy(nodes[idx]) :
                  /\ packets'[p].departure_time - packets[p].queue_entry_time = waited[p]
                  /\ waited'[p] = 0
       /\ pc = "decide" =>
              \A n \in NodeIds : \A i \in DOMAIN queue'[n] :
                  waited'[queue'[n][i]] =
                      waited[queue'[n][i]]
                          + (IF n = nodes[idx] /\ queue'[n] # queue[n] THEN 1 ELSE 0)]_vars

\* C16's case: a packet forwarded to a node is sent on by it after sitting
\* in its queue for one decide phase
C16_Witness ==
    /\ pc = "commit"
    /\ \E p \in PlannedBy(nodes[idx]) :
          /\ packets[p].route # <<>>
          /\ waited[p] = 1
          /\ time - packets[p].queue_entry_time = 1

\* C17: every Hop of every route has received = sent + 1, and in every
\* arrival the transit interval s = arrival_time - departure_time is 1 and the
\* queue interval q = departure_time - queue_entry_time is at least 0, for
\* packets stamped at injection and for packets forwarded by another node.
C17_IntervalsWellFormed ==
    [][/\ \A p \in DOMAIN packets : \A i \in DOMAIN packets[p].route :
              packets[p].route[i].received = packets[p].route[i].sent + 1
       /\ \A n \in NodeIds : \A p \in PlannedBy(n) :
              packets[p].queue_entry_time <= time
       /\ pc = "commit" =>
              \A p \in PlannedBy(nodes[idx]) :
                  /\ packets'[p].arrival_time - packets'[p].departure_time = 1
                  /\ packets'[p].departure_time - packets[p].queue_entry_time >= 0
                  /\ \A hop \in AppendedHops(p) : hop.received = hop.sent + 1]_vars

\* C17's case: a packet injected after the first tick and then forwarded by
\* another node has arrived for the second time
C17_Witness ==
    /\ pc = "end"
    /\ \E p \in DOMAIN packets :
          /\ links[p] >= 2
          /\ packets[p].route[1].sent > 0
          /\ packets[p].departure_time = time
          /\ packets[p].arrival_time = time + 1

\* C18: every value stored in a Q-table is non-negative and finite: a dyadic
\* rational between 0 and 1 + (time + 1)(time + 2)/2, the most that ticks
\* 0 .. time can have made of the initial 1.0 with waits of at most time.
C18_QValuesFiniteNonNegative ==
    \A n \in NodeIds :
        \A k \in DOMAIN q_values[n] :
            /\ q_values[n][k].n >= 0
            /\ q_values[n][k].e >= 0
            /\ ~DLess(DInt(1 + ((time + 1) * (time + 2)) \div 2), q_values[n][k])

\* C18's case: updates have raised one entry above its initial 1.0 and
\* lowered it again below the value it had reached
C18_Witness ==
    \E n \in NodeIds :
        \E k \in DOMAIN q_values[n] :
            /\ DLess(DInt(1), q_values[n][k])
            /\ DLess(q_values[n][k], [n |-> 3, e |-> 1])
            /\ time >= 2

\* C19: in the triplet-key variant every value stored in a Q-table is
\* non-negative.
C19_ScriptQValuesNonNegative ==
    \A n \in NodeIds :
        \A k \in DOMAIN q_values[n] : q_values[n][k].n >= 0

\* A step that start_series has taken: the active label changes, a series is
\* created, or a series loses samples
SeriesStarted ==
    \/ current_label' # current_label
    \/ DOMAIN series' # DOMAIN series
    \/ \E l \in DOMAIN series : Len(series'[l]) < Len(series[l])

\* C20: start_series(label) makes label the active label and series[label]
\* empty, and leaves delivered_packets, the packets and every other label's
\* series as they are, so the average over the delivered packets is the same
\* after it; no step takes a packet out of the registry.
C20_StartSeriesKeepsRegistry ==
    [][/\ SeriesStarted =>
              /\ current_label' \in Labels
              /\ DOMAIN series' = DOMAIN series \cup {current_label'}
              /\ series'[current_label'] = <<>>
              /\ \A l \in DOMAIN series \ {current_label'} : series'[l] = series[l]
              /\ delivered_packets' = delivered_packets
              /\ packets' = packets
              /\ AverageDeliveryTimeSoFar(delivered_packets', packets')
                     = AverageDeliveryTimeSoFar(delivered_packets, packets)
       /\ Len(delivered_packets') >= Len(delivered_packets)
       /\ SubSeq(delivered_packets', 1, Len(delivered_packets)) = delivered_packets]_vars

\* C20's case: a second scenario has been started after a first one that
\* delivered a packet and sampled the average, which is still what the
\* registry gives
C20_Witness ==
    /\ DOMAIN series = Labels
    /\ \E l \in Labels :
          /\ current_label = l
          /\ series[l] = <<>>
          /\ \E other \in Labels \ {l} :
                /\ series[other] # <<>>
                /\ series[other][Len(series[other])][2]
                       = AverageDeliveryTimeSoFar(delivered_packets, packets)
    /\ delivered_packets # <<>>


\* C21: run_gradual_load_scenario injects one packet every gap ticks: an
\* injection that follows another comes exactly gap calls of tick() after it,
\* the injected packet's queue_entry_time is the tick counter at the injection,
\* and the loop is left only when all total packets are injected and delivered
C21_InjectionStampedWithTick ==
    driver'.injections = driver.injections + 1
        => packets'[Head(pending)].queue_entry_time = time

C21_LoopEndsWhenAllDelivered ==
    (driver.phase = "loop" /\ driver'.phase = "done")
        => /\ driver.injections = driver.total
           /\ \A p \in DOMAIN packets : packets[p].reached_destination

C21_GapTicksBetweenInjections ==
    (driver'.injections = driver.injections + 1 /\ driver.since_injection # None)
        => driver.since_injection = driver.gap

C21_OnePacketEveryGapTicks ==
    [][/\ C21_GapTicksBetweenInjections
       /\ C21_InjectionStampedWithTick
       /\ C21_LoopEndsWhenAllDelivered]_vars

\* What the loop does keep: the stamp, and the condition on which it ends
C21_StampAndEnd ==
    [][C21_InjectionStampedWithTick /\ C21_LoopEndsWhenAllDelivered]_vars

\* The separation the loop produces: gap + 1 calls of tick()
C21_GapPlusOne ==
    [][(driver'.injections = driver.injections + 1 /\ driver.since_injection # None)
        => driver.since_injection = driver.gap + 1]_vars

\* The number of places packet p occupies in the queues of the nodes in ns
RECURSIVE QueuedCopies(_, _)
QueuedCopies(p, ns) ==
    IF ns = {} THEN 0
    ELSE LET n == CHOOSE x \in ns : TRUE
         IN  InQueue(p, queue[n]) + QueuedCopies(p, ns \ {n})

\* The packets the driver has injected
Injected == {p \in DOMAIN packets : p \notin Range(pending)}

\* C22: packet conservation: between ticks every injected packet is either
\* delivered and in no queue, or in exactly one place of exactly one queue,
\* and that queue is not the one of its destination
C22_PacketConservation ==
    pc = "idle" =>
        \A p \in Injected :
            IF packets[p].reached_destination
            THEN QueuedCopies(p, NodeIds) = 0
            ELSE /\ QueuedCopies(p, NodeIds) = 1
                 /\ InQueue(p, queue[packets[p].destination]) = 0

\* Two ticks have run, one packet was forwarded and waits at an intermediate
\* node and another one has been delivered
C22_Witness ==
    /\ pc = "idle"
    /\ time >= 2
    /\ \E p \in Injected, q \in Injected :
           /\ packets[p].reached_destination
           /\ ~packets[q].reached_destination
           /\ links[q] >= 1
           /\ InQueue(q, queue[packets[q].origin]) = 0
           /\ QueuedCopies(q, NodeIds) = 1

\* C23: commit-order independence of learning: the Q-tables a tick() ends
\* with are the same for every order of the nodes in the commit phase, and
\* the bootstrap term t of every arrival is the receiver's minimum as it was
\* when the commit phase began
C23_CommitOrderIndependence ==
    (pc = "commit" /\ idx = 1) =>
        /\ \A o \in AllOrders :
               CommitPhase(World, o).q_values = CommitPhase(World, nodes).q_values
        /\ \A i \in DOMAIN nodes :
               \A k \in DOMAIN pending_requests[nodes[i]] :
                   BootstrapTerm(CommitPhase(World, SubSeq(nodes, 1, i - 1)),
                                 pending_requests[nodes[i]][k])
                       = BootstrapTerm(World, pending_requests[nodes[i]][k])

\* The entries of a Q-table for the destination
EntriesFor(tbl, destination) == {k \in DOMAIN tbl : k[1] = destination}

\* C24: zero remaining cost at the destination: no Q-table holds an entry
\* whose destination is its own node, at construction and after every step;
\* so when a send delivers its packet the bootstrap term t is 0.0 and the
\* sender's entry for (destination, destination) becomes
\* old + eta * ((q + 1) - old), which is no further from q + 1 than old was
C24_ZeroCostAtDestination ==
    [][/\ \A n \in NodeIds :
              EntriesFor(q_values[n], n) = {} /\ EntriesFor(q_values'[n], n) = {}
       /\ pc = "commit" =>
              \A k \in DOMAIN pending_requests[nodes[idx]] :
                  LET x == nodes[idx]
                      req == pending_requests[x][k]
                      p == req[1]
                      d == packets[p].destination
                      old == Get(q_values[x], d, d)
                      new == Get(q_values'[x], d, d)
                      q == time - packets[p].queue_entry_time
                  IN  req[2] = d =>
                          /\ packets'[p].reached_destination
                          /\ BootstrapTerm(World, req) = DInt(0)
                          /\ new = DAdd(old, DMul(learning_rate,
                                                  DSub(DInt(q + 1), old)))
                          /\ ~DLess(DAbs(DSub(DInt(q + 1), old)),
                                    DAbs(DSub(DInt(q + 1), new)))]_vars

\* C24's case: a packet that waited in its sender's queue has been delivered,
\* and the sender's entry for (destination, destination) has left 1.0
C24_Witness ==
    \E p \in DOMAIN packets :
        /\ packets[p].reached_destination
        /\ packets[p].route # <<>>
        /\ packets[p].departure_time - packets[p].queue_entry_time >= 1
        /\ EntriesFor(q_values[packets[p].destination], packets[p].destination) = {}
        /\ Get(q_values[LastHop(p).from_id], packets[p].destination,
               packets[p].destination) # DInt(1)

\* C25: in script.py every key of a node's Q-table has the node's own id as
\* from-node, so the estimate tick() reads from the chosen neighbour's table
\* under (deciding node, destination, neighbour) is the default 0.0 whenever
\* a node decides, and the value it stores is 0.5 * ((time_in_queue + 1) - old)
C25_NeighbourEstimateIsDefault ==
    [][/\ \A n \in NodeIds :
              /\ \A k \in DOMAIN q_values[n] : k[1] = n
              /\ \A k \in DOMAIN q_values'[n] : k[1] = n
       /\ (/\ pc = "decide"
           /\ queue[nodes[idx]] # <<>>
           /\ ~packets[Head(queue[nodes[idx]])].reached_destination
           /\ neighbors[nodes[idx]] # <<>>) =>
              LET node == nodes[idx]
                  packet == Head(queue[node])
                  destination == packets[packet].destination
                  best_next_node == ScriptBestNextNode(node, destination)
                  old_estimation ==
                      ScriptGet(q_values[node], node, destination, best_next_node)
              IN  /\ ScriptGet(q_values[best_next_node], node, destination,
                               best_next_node) = DInt(0)
                  /\ ScriptGet(q_values'[node], node, destination, best_next_node)
                         = ScriptNewEstimation(packets[packet].time_in_queue,
                                               DInt(0), old_estimation)]_vars

\* C25's case: a node has decided to send to a neighbour whose table holds a
\* learned, non-zero estimate for the packet's destination
C25_Witness ==
    \E n \in NodeIds :
        /\ pending_requests[n] # <<>>
        /\ LET best_next_node == pending_requests[n][1][2]
               destination == packets[pending_requests[n][1][1]].destination
           IN  \E k \in DOMAIN q_values[best_next_node] :
                   /\ k[2] = destination
                   /\ q_values[best_next_node][k] # DInt(0)

====
